---- MODULE Spec2Model ----
(***************************************************************************)
(* Model of the live conversational audio session of                       *)
(* src/components/LiveSession.tsx: the React component's refs and state,   *)
(* the startSession / stopSession handlers, the transport callbacks        *)
(* (onopen, onmessage, onclose, onerror), the capture callback and the     *)
(* playback scheduling done inside onmessage, and the PCM codec            *)
(* (createPcmBlob and the decoding at the head of onmessage).              *)
(*                                                                         *)
(* Time is counted in ticks of the output context's clock; a chunk's       *)
(* duration (buffer.duration = samples / 24000) is a positive number of    *)
(* ticks.  Web Audio behaviour assumed of the browser: a closed            *)
(* AudioContext still lets nodes be created and started, its clock is      *)
(* frozen and its sources never play nor fire "ended"; close() on a closed *)
(* context returns a rejected promise and changes nothing.  The transport  *)
(* delivers no message once close() was called on the session, and the     *)
(* promise returned by connect resolves right after the onopen callback.   *)
(***************************************************************************)
EXTENDS Integers, Sequences, FiniteSets, TLC

\* ---- bounds of the model
MaxStarts == 1      \* startSession invocations explored with the scheduler
MaxChunks == 2      \* well-formed inbound audio chunks explored
MaxDur    == 2      \* longest chunk, in clock ticks
MaxTime   == 1      \* last clock tick explored on each output context
MaxFrames == 2      \* capture callbacks explored
MaxSessions == 2    \* startSession invocations explored without scheduler and capture
MaxSamples == 2     \* longest frame given to the codec
Fine == 2           \* sample values distinguished within one 16-bit step
Span == 2           \* sample values explored on each side of -1, -1/2, 0, 1/2 and 1
MaxJobs == 2        \* invocations of the one-shot handlers of App.tsx explored
MaxMarks == 1       \* bookmarks explored per document
MaxPos == 1         \* last audio position explored

Calls == 1..MaxSessions

\* inbound payloads: none, a payload with an odd number of bytes, or a
\* well-formed chunk known by its duration
NoAudio   == 0
Malformed == -1
Audio     == {NoAudio, Malformed} \cup (1..MaxDur)

\* no chunk was scheduled yet, or none since the last interruption
NoChunk == [ctx |-> 0, start |-> -1, dur |-> 0]

VARIABLES
    mounted,            \* the component is mounted
    isConnected,        \* useState isConnected
    isMuted,            \* useState isMuted
    audioContextRef,    \* 0 = null, else the call whose output context it holds
    inputContextRef,    \* 0 = null, else the call whose input context it holds
    sessionPromiseRef,  \* 0 = null, else the call whose connect promise it holds
    nextStartTime,      \* nextStartTimeRef.current
    sources,            \* sourcesRef.current: ids of AudioBufferSourceNodes
    pc,                 \* per startSession call: where it is
    stoppedAwaiting,    \* per call: stopSession ran while it awaited getUserMedia
    mutedAt,            \* per call: isMuted as captured by the call's closure
    outCtx, inCtx,      \* per call: state of the contexts the call created
    clock,              \* per call: currentTime of its output context
    mic,                \* per call: the microphone stream it holds
    conn,               \* per call: state of the remote connection
    resolved,           \* per call: its connect promise has resolved
    thenQ,              \* per call: callbacks waiting on its connect promise
    sent,               \* per call: the frames handed to sendRealtimeInput, in order
    frames,             \* capture callbacks fired so far; the n-th one carries frame n
    log,                \* per frame: what its capture callback saw when it fired
    made,               \* source nodes created so far
    playing,            \* the nodes started that neither ended nor were stopped
    stops,              \* calls of stop() on a node so far (line 123)
    lastChunk,          \* context, start and duration of the chunk scheduled last
    intrSince,          \* an interruption ran since that chunk was scheduled
    lastOp,             \* the handler that ran last: "stop" (stopSession),
                        \* "interrupt" (onmessage of a message whose
                        \* interrupted flag is set) or "other"
    codecPc,            \* the codec's round trip: "idle", "raw", "encoded", "decoded"
    data,               \* the Float32Array given to createPcmBlob
    blob,               \* the base64 text of the blob made from it
    channelData,        \* the channel data decoded from that text
    history,            \* App: useState history, newest first
    currentDocId,       \* App: useState currentDocId, 0 = null
    extractedText,      \* App: 0 = '', else the id of the document whose text it is
    audioUrl,           \* App: 0 = null, else the id of the document it was made from
    isLoading,          \* App: procState.isLoading
    results,            \* App: which of transcription, analysisResult,
                        \* analyzedImgUrl and generatedImgBase64 were set
    job                 \* App: per invocation of a one-shot handler, its kind,
                        \* where it is, and the text it captured

codecVars == <<codecPc, data, blob, channelData>>
sessionVars == <<mounted, isConnected, isMuted, audioContextRef, inputContextRef,
                 sessionPromiseRef, nextStartTime, sources, pc, mutedAt, outCtx, inCtx,
                 clock, mic, conn, resolved, thenQ, sent, frames, log, made, playing,
                 stops, lastChunk, intrSince, stoppedAwaiting, lastOp>>
appVars == <<history, currentDocId, extractedText, audioUrl, isLoading, results, job>>
vars == <<sessionVars, codecVars, appVars>>

reactVars == <<isConnected, isMuted>>
refVars   == <<audioContextRef, inputContextRef, sessionPromiseRef>>
schedVars == <<nextStartTime, sources, made, playing, stops, lastChunk, intrSince>>
ctxVars   == <<outCtx, inCtx, clock>>
connVars  == <<conn, resolved, thenQ, sent>>
capVars   == <<frames, log>>

SessionInit ==
    /\ mounted = TRUE
    /\ isConnected = FALSE
    /\ isMuted = FALSE
    /\ audioContextRef = 0
    /\ inputContextRef = 0
    /\ sessionPromiseRef = 0
    /\ nextStartTime = 0
    /\ sources = {}
    /\ pc = [i \in Calls |-> "unused"]
    /\ stoppedAwaiting = [i \in Calls |-> FALSE]
    /\ mutedAt = [i \in Calls |-> FALSE]
    /\ outCtx = [i \in Calls |-> "none"]
    /\ inCtx = [i \in Calls |-> "none"]
    /\ clock = [i \in Calls |-> 0]
    /\ mic = [i \in Calls |-> FALSE]
    /\ conn = [i \in Calls |-> "none"]
    /\ resolved = [i \in Calls |-> FALSE]
    /\ thenQ = [i \in Calls |-> <<>>]
    /\ sent = [i \in Calls |-> <<>>]
    /\ frames = 0
    /\ log = <<>>
    /\ made = 0
    /\ playing = {}
    /\ stops = 0
    /\ lastChunk = NoChunk
    /\ intrSince = FALSE
    /\ lastOp = "other"

CodecIdle ==
    /\ codecPc = "idle"
    /\ data = <<>>
    /\ blob = <<>>
    /\ channelData = <<>>

\* App before anything was uploaded (lines 41-68), localStorage being empty
AppIdle ==
    /\ history = <<>>
    /\ currentDocId = 0
    /\ extractedText = 0
    /\ audioUrl = 0
    /\ isLoading = FALSE
    /\ results = {}
    /\ job = [h \in 1..MaxJobs |-> [kind |-> "none", pc |-> "unused", text |-> 0]]

Init ==
    /\ SessionInit
    /\ CodecIdle
    /\ AppIdle

\* a setState call of an unmounted component is ignored
SetState(cur, new) == IF mounted THEN new ELSE cur

\* ---- startSession, up to the await of getUserMedia (lines 48-62)
StartClick(i) ==
    /\ mounted /\ ~isConnected              \* the Start button is rendered (188-195)
    /\ pc[i] = "unused"
    /\ \A j \in Calls : j < i => pc[j] # "unused"
    /\ outCtx' = [outCtx EXCEPT ![i] = "running"]
    /\ audioContextRef' = i
    /\ inCtx' = [inCtx EXCEPT ![i] = "running"]
    /\ inputContextRef' = i
    /\ mutedAt' = [mutedAt EXCEPT ![i] = isMuted]
    /\ pc' = [pc EXCEPT ![i] = "awaitMic"]
    /\ UNCHANGED stoppedAwaiting
    /\ lastOp' = "other"
    /\ UNCHANGED <<mounted, isConnected, isMuted, sessionPromiseRef, schedVars,
                   clock, mic, connVars, capVars, codecVars, appVars>>

\* ---- startSession resumed with the stream (lines 62-147)
MicGranted(i) ==
    /\ pc[i] = "awaitMic"
    /\ mic' = [mic EXCEPT ![i] = TRUE]
    /\ conn' = [conn EXCEPT ![i] = "connecting"]
    /\ sessionPromiseRef' = i
    /\ pc' = [pc EXCEPT ![i] = "done"]
    /\ UNCHANGED stoppedAwaiting
    /\ lastOp' = "other"
    /\ UNCHANGED <<mounted, reactVars, audioContextRef, inputContextRef, schedVars,
                   mutedAt, ctxVars, resolved, thenQ, sent, capVars, codecVars, appVars>>

\* faulty variant: the connection is requested although the microphone was refused
MicDeniedConnects(i) ==
    /\ pc[i] = "awaitMic"
    /\ pc' = [pc EXCEPT ![i] = "failed"]
    /\ conn' = [conn EXCEPT ![i] = "connecting"]
    /\ sessionPromiseRef' = i
    /\ UNCHANGED stoppedAwaiting
    /\ lastOp' = "other"
    /\ UNCHANGED <<mounted, isConnected, isMuted, audioContextRef, inputContextRef,
                   schedVars, mutedAt, ctxVars, mic, resolved, thenQ, sent, capVars, codecVars, appVars>>

\* ---- getUserMedia rejected: the catch block (lines 62, 149-152)
MicDenied(i) ==
    /\ pc[i] = "awaitMic"
    /\ pc' = [pc EXCEPT ![i] = "failed"]
    /\ UNCHANGED stoppedAwaiting
    /\ lastOp' = "other"
    /\ UNCHANGED <<mounted, isConnected, isMuted, refVars, schedVars, mutedAt,
                   ctxVars, mic, connVars, capVars, codecVars, appVars>>

\* ---- scriptProcessor.onaudioprocess (lines 67-77).  The closure reads the
\* isMuted of the render in which startSession was called, and the ref's
\* current promise; a processor of a closed context is not called.
Capture(i) ==
    /\ pc[i] = "done" /\ inCtx[i] = "running"
    /\ frames < MaxFrames
    /\ frames' = frames + 1
    /\ LET j == sessionPromiseRef
           f == frames + 1
       IN
       /\ log' = Append(log, [by |-> i, gate |-> mutedAt[i], muted |-> isMuted,
                              to |-> j, at |-> IF j = 0 THEN "none" ELSE conn[j]])
       /\ IF mutedAt[i] \/ j = 0
            THEN UNCHANGED <<thenQ, sent>>
            ELSE IF resolved[j]
                   THEN /\ sent' = [sent EXCEPT ![j] = Append(@, f)]
                        /\ UNCHANGED thenQ
                   ELSE /\ thenQ' = [thenQ EXCEPT ![j] =
                                        Append(@, [op |-> "send", frame |-> f])]
                        /\ UNCHANGED sent
    /\ lastOp' = "other"
    /\ UNCHANGED <<mounted, reactVars, refVars, schedVars, pc, stoppedAwaiting, mutedAt, ctxVars,
                   mic, conn, resolved, codecVars, appVars>>

\* faulty variant: the sends queued on the promise are lost
SendsDropped(q) == <<>>
\* faulty variant: the sends queued on the promise run last-registered first
SendsReversed(q) ==
    LET s == SelectSeq(q, LAMBDA e : e.op = "send")
    IN  [k \in 1..Len(s) |-> s[Len(s) + 1 - k].frame]

\* the callbacks queued on a connect promise, run in order when it resolves
Sends(q) ==
    LET s == SelectSeq(q, LAMBDA e : e.op = "send")
    IN  [k \in 1..Len(s) |-> s[k].frame]
Closes(q) == \E k \in DOMAIN q : q[k].op = "close"

\* ---- onopen, then the connect promise resolves (lines 85-89, 73-75, 157)
ConnOpen(i) ==
    /\ conn[i] = "connecting"
    /\ isConnected' = SetState(isConnected, TRUE)
    /\ resolved' = [resolved EXCEPT ![i] = TRUE]
    /\ sent' = [sent EXCEPT ![i] = @ \o Sends(thenQ[i])]
    /\ conn' = [conn EXCEPT ![i] = IF Closes(thenQ[i]) THEN "closing" ELSE "open"]
    /\ thenQ' = [thenQ EXCEPT ![i] = <<>>]
    /\ lastOp' = "other"
    /\ UNCHANGED <<mounted, isMuted, refVars, schedVars, pc, stoppedAwaiting, mutedAt, ctxVars,
                   mic, capVars, codecVars, appVars>>

\* faulty variant: the close handler also clears the scheduler
OnCloseClearsScheduler(i) ==
    /\ conn[i] \in {"open", "closing", "errored"}
    /\ conn' = [conn EXCEPT ![i] = "closed"]
    /\ isConnected' = SetState(isConnected, FALSE)
    /\ sources' = {}
    /\ nextStartTime' = 0
    /\ lastOp' = "other"
    /\ UNCHANGED <<mounted, isMuted, refVars, made, playing, stops, lastChunk, intrSince,
                   pc, stoppedAwaiting, mutedAt, ctxVars, mic, resolved, thenQ, sent,
                   capVars, codecVars, appVars>>

\* ---- onclose (lines 128-131)
OnClose(i) ==
    /\ conn[i] \in {"open", "closing", "errored"}
    /\ conn' = [conn EXCEPT ![i] = "closed"]
    /\ isConnected' = SetState(isConnected, FALSE)
    /\ lastOp' = "other"
    /\ UNCHANGED <<mounted, isMuted, refVars, schedVars, pc, stoppedAwaiting, mutedAt, ctxVars,
                   mic, resolved, thenQ, sent, capVars, codecVars, appVars>>

\* ---- onerror (lines 132-136)
OnError(i) ==
    /\ conn[i] \in {"connecting", "open"}
    /\ conn' = [conn EXCEPT ![i] = "errored"]
    /\ lastOp' = "other"
    /\ UNCHANGED <<mounted, isConnected, isMuted, refVars, schedVars, pc, stoppedAwaiting, mutedAt,
                   ctxVars, mic, resolved, thenQ, sent, capVars, codecVars, appVars>>

\* ---- the mute button (lines 198-203)
ToggleMute ==
    /\ mounted /\ isConnected
    /\ isMuted' = ~isMuted
    /\ lastOp' = "other"
    /\ UNCHANGED <<mounted, isConnected, refVars, schedVars, pc, stoppedAwaiting, mutedAt,
                   ctxVars, mic, connVars, capVars, codecVars, appVars>>

\* faulty variants of the scheduling steps, used to test the properties below
StartAtNoCatchUp(nst, now) == nst
AdvancedByNothing(start, d) == start
InterruptResetSkipped == nextStartTime
StartAtAlwaysNow(nst, now) == now

\* ---- playback scheduling inside onmessage (lines 108-114)
StartAt(nst, now) == IF nst < now THEN now ELSE nst
AdvancedBy(start, d) == start + d
\* ---- the reset of the interruption branch (line 125)
InterruptReset == 0

\* ---- onmessage (lines 90-127)
OnMessage(i, m) ==
    /\ conn[i] = "open"
    /\ m.audio \in 1..MaxDur => made < MaxChunks
    /\ LET threw  == m.audio = Malformed       \* new Int16Array on odd bytes (97)
           has    == m.audio \in 1..MaxDur
           now    == clock[i]
           start  == StartAt(nextStartTime, now)
           node   == [id |-> made + 1, ctx |-> i, start |-> start, dur |-> m.audio]
           set1   == IF has THEN sources \cup {node} ELSE sources
           play1  == IF has THEN playing \cup {node} ELSE playing
       IN
       IF threw
         THEN UNCHANGED schedVars
         ELSE /\ made' = IF has THEN made + 1 ELSE made
              /\ lastChunk' = IF has THEN [ctx |-> i, start |-> start, dur |-> m.audio]
                              ELSE IF m.interrupted THEN NoChunk ELSE lastChunk
              /\ IF m.interrupted
                   THEN /\ playing' = play1 \ set1          \* forEach s.stop()
                        /\ stops' = stops + Cardinality(set1)
                        /\ sources' = {}
                        /\ nextStartTime' = InterruptReset
                        /\ intrSince' = TRUE
                   ELSE /\ playing' = play1
                        /\ stops' = stops
                        /\ sources' = set1
                        /\ nextStartTime' = IF has THEN AdvancedBy(start, m.audio)
                                                    ELSE nextStartTime
                        /\ intrSince' = (intrSince /\ ~has)
    /\ lastOp' = IF m.interrupted THEN "interrupt" ELSE "other"
    /\ UNCHANGED <<mounted, reactVars, refVars, pc, stoppedAwaiting, mutedAt, ctxVars, mic, connVars,
                   capVars, codecVars, appVars>>

\* ---- src.onended (line 117): the node finished playing
SourceEnded(k) ==
    /\ \E n \in playing :
          /\ n.id = k
          /\ outCtx[n.ctx] = "running"
          /\ clock[n.ctx] >= n.start + n.dur
          /\ playing' = playing \ {n}
          /\ sources' = sources \ {n}
    /\ lastOp' = "other"
    /\ UNCHANGED <<mounted, reactVars, refVars, nextStartTime, made, stops, lastChunk,
                   intrSince, pc, stoppedAwaiting, mutedAt, ctxVars, mic, connVars,
                   capVars, codecVars, appVars>>

\* ---- the output context's clock advances
Tick(i) ==
    /\ outCtx[i] = "running"
    /\ clock[i] < MaxTime
    /\ clock' = [clock EXCEPT ![i] = @ + 1]
    /\ UNCHANGED <<mounted, reactVars, refVars, schedVars, pc, stoppedAwaiting, mutedAt, outCtx, inCtx,
                   mic, connVars, capVars, codecVars, appVars, lastOp>>

\* what a caller of stop() can observe of the session and its resources
Observable == <<isConnected, refVars, schedVars, ctxVars, mic, connVars>>

\* ---- stopSession (lines 155-168)
StopSession ==
    /\ LET j == sessionPromiseRef IN
       IF j = 0 THEN UNCHANGED <<conn, thenQ>>
       ELSE IF resolved[j]
              THEN /\ conn' = [conn EXCEPT ![j] = IF @ = "open" THEN "closing" ELSE @]
                   /\ UNCHANGED thenQ
              ELSE /\ thenQ' = [thenQ EXCEPT ![j] =
                                   Append(@, [op |-> "close", frame |-> 0])]
                   /\ UNCHANGED conn
    /\ outCtx' = IF audioContextRef = 0 THEN outCtx
                 ELSE [outCtx EXCEPT ![audioContextRef] = "closed"]
    /\ inCtx' = IF inputContextRef = 0 THEN inCtx
                ELSE [inCtx EXCEPT ![inputContextRef] = "closed"]
    /\ isConnected' = SetState(isConnected, FALSE)
    /\ sessionPromiseRef' = 0
    /\ stoppedAwaiting' = [i \in Calls |-> stoppedAwaiting[i] \/ pc[i] = "awaitMic"]
    /\ UNCHANGED <<isMuted, audioContextRef, inputContextRef, schedVars, pc, mutedAt,
                   clock, mic, resolved, sent, capVars, codecVars, appVars>>
    /\ lastOp' = "stop"

\* ---- the End Call button (lines 204-210)
StopClick ==
    /\ mounted /\ isConnected
    /\ StopSession
    /\ UNCHANGED mounted

\* ---- the effect cleanup on unmount (lines 171-175)
Unmount ==
    /\ mounted
    /\ mounted' = FALSE
    /\ StopSession

Msgs == [audio : Audio, interrupted : BOOLEAN]

\* The session's life cycle and the playback scheduler.  The capture callback
\* and the mute button touch none of the variables these actions read
\* (a queued send only ever adds to sent), so they are left to CaptureSpec.
Next ==
    \/ \E i \in 1..MaxStarts : StartClick(i)
    \/ \E i \in Calls : MicGranted(i)
    \/ \E i \in Calls : MicDenied(i)
    \/ \E i \in Calls : ConnOpen(i)
    \/ \E i \in Calls : OnClose(i)
    \/ \E i \in Calls : OnError(i)
    \/ \E i \in Calls, m \in Msgs : OnMessage(i, m)
    \/ \E k \in 1..MaxChunks : SourceEnded(k)
    \/ \E i \in Calls : Tick(i)
    \/ StopClick
    \/ Unmount

Spec == Init /\ [][Next]_vars

\* The session's life cycle and the capture path, without the inbound messages.
CaptureNext ==
    \/ \E i \in 1..MaxStarts : StartClick(i)
    \/ \E i \in Calls : MicGranted(i)
    \/ \E i \in Calls : MicDenied(i)
    \/ \E i \in Calls : Capture(i)
    \/ \E i \in Calls : ConnOpen(i)
    \/ \E i \in Calls : OnClose(i)
    \/ \E i \in Calls : OnError(i)
    \/ ToggleMute
    \/ StopClick
    \/ Unmount

CaptureSpec == Init /\ [][CaptureNext]_vars

\* The session's life cycle alone, over more startSession calls.
RestartNext ==
    \/ \E i \in Calls : StartClick(i)
    \/ \E i \in Calls : MicGranted(i)
    \/ \E i \in Calls : MicDenied(i)
    \/ \E i \in Calls : ConnOpen(i)
    \/ \E i \in Calls : OnClose(i)
    \/ \E i \in Calls : OnError(i)
    \/ StopClick
    \/ Unmount

RestartSpec == Init /\ [][RestartNext]_vars

\* The session's life cycle and the playback scheduler, over more startSession
\* calls.
SessionsNext ==
    \/ \E i \in Calls : StartClick(i)
    \/ \E i \in Calls : MicGranted(i)
    \/ \E i \in Calls : MicDenied(i)
    \/ \E i \in Calls : ConnOpen(i)
    \/ \E i \in Calls : OnClose(i)
    \/ \E i \in Calls : OnError(i)
    \/ \E i \in Calls, m \in Msgs : OnMessage(i, m)
    \/ \E k \in 1..MaxChunks : SourceEnded(k)
    \/ \E i \in Calls : Tick(i)
    \/ StopClick
    \/ Unmount

SessionsSpec == Init /\ [][SessionsNext]_vars

\* ---- the PCM codec: createPcmBlob (lines 8-28) and the decoding at the head
\* of onmessage (lines 94-102).  A sample s is held as the integer s * Den, so
\* that one 16-bit step, 1/32768, is Fine units; every value used is exact in
\* float32 arithmetic.
EncScale == 32768
DecScale == 32768
Den == Fine * 32768

Abs(x) == IF x < 0 THEN -x ELSE x
\* the integral part of a / b, towards zero (ToIntegerOrInfinity)
Trunc(a, b) == IF a >= 0 THEN a \div b ELSE -((-a) \div b)
\* the store into an Int16Array element: modulo 2^16 into -2^15 .. 2^15 - 1
ToInt16(x) == ((x + 32768) % 65536) - 32768

RECURSIVE GCD(_, _)
GCD(a, b) == IF b = 0 THEN a ELSE GCD(b, a % b)
\* one 16-bit step, 1/32768, in units of 1/Den
Step == Den \div 32768

\* int16[i] = data[i] * 32768 (line 12): the product (n / Den) * EncScale, with
\* the fraction EncScale / Den reduced first to keep the numbers small
EncodeSample(n) ==
    LET g == GCD(EncScale, Den)
    IN  ToInt16(Trunc(n * (EncScale \div g), Den \div g))
\* the two bytes of an element as new Uint8Array(int16.buffer) shows them
\* (line 14), low byte first
Int16Bytes(v) == <<(v % 65536) % 256, (v % 65536) \div 256>>

RECURSIVE PackBytes(_)
PackBytes(s) ==
    IF s = <<>> THEN <<>>
    ELSE Int16Bytes(EncodeSample(Head(s))) \o PackBytes(Tail(s))

\* btoa (line 16): a text over the 64 digits, here 0..63, with 64 as the pad
RECURSIVE Btoa(_)
Btoa(b) ==
    IF Len(b) = 0 THEN <<>>
    ELSE IF Len(b) = 1 THEN <<b[1] \div 4, (b[1] % 4) * 16, 64, 64>>
    ELSE IF Len(b) = 2
      THEN <<b[1] \div 4, (b[1] % 4) * 16 + b[2] \div 16, (b[2] % 16) * 4, 64>>
      ELSE <<b[1] \div 4, (b[1] % 4) * 16 + b[2] \div 16,
             (b[2] % 16) * 4 + b[3] \div 64, b[3] % 64>>
             \o Btoa(SubSeq(b, 4, Len(b)))

\* createPcmBlob's data field
createPcmBlob(s) == Btoa(PackBytes(s))

\* base64ToUint8Array of services/utils: the bytes a base64 text stands for
RECURSIVE base64ToUint8Array(_)
base64ToUint8Array(x) ==
    IF Len(x) < 4 THEN <<>>
    ELSE LET b1 == x[1] * 4 + x[2] \div 16
             b2 == (x[2] % 16) * 16 + x[3] \div 4
             b3 == (x[3] % 4) * 64 + x[4]
         IN  (IF x[3] = 64 THEN <<b1>>
              ELSE IF x[4] = 64 THEN <<b1, b2>> ELSE <<b1, b2, b3>>)
             \o base64ToUint8Array(SubSeq(x, 5, Len(x)))

\* new Int16Array(bytes.buffer) (line 97), for an even number of bytes
Int16View(b) ==
    [k \in 1..(Len(b) \div 2) |->
        LET u == b[2 * k - 1] + 256 * b[2 * k]
        IN  IF u >= 32768 THEN u - 65536 ELSE u]
\* channelData[i] = dataInt16[i] / 32768.0 (line 101)
DecodeSample(v) ==
    LET g == GCD(Den, DecScale)
    IN  (v * (Den \div g)) \div (DecScale \div g)
DecodeChunk(x) ==
    LET v == Int16View(base64ToUint8Array(x))
    IN  [k \in 1..Len(v) |-> DecodeSample(v[k])]

\* the sample values explored: around -1, -1/2, 0, 1/2 and 1, within [-1, 1]
Samples ==
    {c * (Den \div 2) + d : c \in -2..2, d \in -Span..Span} \cap (-Den..Den)
Frames == UNION {[1..n -> Samples] : n \in 1..MaxSamples}

CodecInit ==
    /\ SessionInit
    /\ AppIdle
    /\ codecPc = "raw"
    /\ data \in Frames
    /\ blob = <<>>
    /\ channelData = <<>>

\* a frame is encoded as the capture callback does (line 70)
EncodeFrame ==
    /\ codecPc = "raw"
    /\ blob' = createPcmBlob(data)
    /\ codecPc' = "encoded"
    /\ UNCHANGED <<sessionVars, appVars, data, channelData>>

\* the text is decoded as onmessage does (lines 94-102); an odd number of
\* bytes throws at line 97
DecodeFrame ==
    /\ codecPc = "encoded"
    /\ IF Len(base64ToUint8Array(blob)) % 2 = 1
         THEN codecPc' = "threw" /\ UNCHANGED channelData
         ELSE codecPc' = "decoded" /\ channelData' = DecodeChunk(blob)
    /\ UNCHANGED <<sessionVars, appVars, data, blob>>

CodecNext == EncodeFrame \/ DecodeFrame

CodecSpec == CodecInit /\ [][CodecNext]_vars

\* ---- the one-shot flows of src/App.tsx.  A document's text is known by the
\* document's id, an audio URL by the id of the text it was made from.  The id
\* that crypto.randomUUID gives to an upload is the number of the invocation.
Jobs == 1..MaxJobs
Awaiting == {"awaitFile", "awaitRemote"}
HistoryIds == {history[k].id : k \in DOMAIN history}
\* the document found in localStorage on a later visit
SavedId == MaxJobs + 1
NewItem(id) == [id |-> id, bookmarks |-> <<>>, lastPosition |-> 0]

\* a handler is entered: the lowest unused invocation
Enter(h, kind, at, text) ==
    /\ job[h].pc = "unused"
    /\ \A g \in Jobs : g < h => job[g].pc # "unused"
    /\ job' = [job EXCEPT ![h] = [kind |-> kind, pc |-> at, text |-> text]]
\* a handler goes on
Goes(h, kind, from, to) ==
    /\ job[h].kind = kind /\ job[h].pc = from
    /\ job' = [job EXCEPT ![h].pc = to]

\* updateHistoryItem (lines 93-95)
updateHistoryItem(id, field, value) ==
    [k \in DOMAIN history |->
        IF history[k].id = id THEN [history[k] EXCEPT ![field] = value]
        ELSE history[k]]

\* faulty variant: the open document is deleted but stays the current one
DeleteKeepsCurrent(k) ==
    /\ k \in DOMAIN history
    /\ history' = SelectSeq(history, LAMBDA it : it.id # history[k].id)
    /\ UNCHANGED <<sessionVars, codecVars, currentDocId, extractedText, audioUrl,
                   isLoading, results, job>>

\* ---- deleteHistoryItem (lines 97-105), on the k-th item shown
deleteHistoryItem(k) ==
    /\ k \in DOMAIN history
    /\ history' = SelectSeq(history, LAMBDA it : it.id # history[k].id)
    /\ IF currentDocId = history[k].id
         THEN extractedText' = 0 /\ audioUrl' = 0 /\ currentDocId' = 0
         ELSE UNCHANGED <<extractedText, audioUrl, currentDocId>>
    /\ UNCHANGED <<sessionVars, codecVars, isLoading, results, job>>

\* ---- handleFileUpload up to its first await (lines 110-120)
handleFileUpload(h) ==
    /\ Enter(h, "doc", "awaitFile", 0)
    /\ isLoading' = TRUE
    /\ audioUrl' = 0
    /\ extractedText' = 0
    /\ currentDocId' = 0
    /\ UNCHANGED <<sessionVars, codecVars, history, results>>
\* fileToBase64 resolved (line 120)
DocFileRead(h) ==
    /\ Goes(h, "doc", "awaitFile", "awaitRemote")
    /\ UNCHANGED <<sessionVars, codecVars, history, currentDocId, extractedText,
                   audioUrl, isLoading, results>>
\* extractTextFromDocument resolved (lines 121-139)
DocExtracted(h) ==
    /\ Goes(h, "doc", "awaitRemote", "done")
    /\ history' = <<NewItem(h)>> \o history
    /\ currentDocId' = h
    /\ extractedText' = h
    /\ isLoading' = FALSE
    /\ UNCHANGED <<sessionVars, codecVars, audioUrl, results>>
\* either await rejected: the catch block (lines 140-142)
DocFailed(h) ==
    /\ job[h].pc \in Awaiting
    /\ Goes(h, "doc", job[h].pc, "caught")
    /\ isLoading' = FALSE
    /\ UNCHANGED <<sessionVars, codecVars, history, currentDocId, extractedText,
                   audioUrl, results>>

\* ---- handleHistoryClick (lines 145-154), on the k-th item shown
handleHistoryClick(k) ==
    /\ k \in DOMAIN history
    /\ extractedText' = history[k].id
    /\ currentDocId' = history[k].id
    /\ audioUrl' = 0
    /\ isLoading' = FALSE
    /\ UNCHANGED <<sessionVars, codecVars, history, results, job>>

\* ---- handleReadAloud (lines 156-175); its button is disabled while loading
handleReadAloud(h) ==
    /\ extractedText # 0 /\ ~isLoading
    /\ Enter(h, "speech", "awaitRemote", extractedText)
    /\ isLoading' = TRUE
    /\ UNCHANGED <<sessionVars, codecVars, history, currentDocId, extractedText,
                   audioUrl, results>>
SpeechReady(h) ==
    /\ Goes(h, "speech", "awaitRemote", "done")
    /\ audioUrl' = job[h].text
    /\ isLoading' = FALSE
    /\ UNCHANGED <<sessionVars, codecVars, history, currentDocId, extractedText, results>>
SpeechFailed(h) ==
    /\ Goes(h, "speech", "awaitRemote", "caught")
    /\ isLoading' = FALSE
    /\ UNCHANGED <<sessionVars, codecVars, history, currentDocId, extractedText,
                   audioUrl, results>>

\* [...bookmarks, new].sort by time (line 189); the sort is stable
RECURSIVE InsertByTime(_, _)
InsertByTime(s, t) ==
    IF s = <<>> THEN <<t>>
    ELSE IF Head(s) <= t THEN <<Head(s)>> \o InsertByTime(Tail(s), t)
    ELSE <<t>> \o s

\* ---- handleAddBookmark (lines 177-192); the audio element exists while
\* audioUrl is set
handleAddBookmark(t) ==
    /\ audioUrl # 0 /\ currentDocId # 0
    /\ \A k \in DOMAIN history :
          history[k].id = currentDocId => Len(history[k].bookmarks) < MaxMarks
    /\ history' =
          [k \in DOMAIN history |->
              IF history[k].id = currentDocId
                THEN [history[k] EXCEPT !.bookmarks = InsertByTime(@, t)]
                ELSE history[k]]
    /\ UNCHANGED <<sessionVars, codecVars, currentDocId, extractedText, audioUrl,
                   isLoading, results, job>>

\* ---- handleAudioPause (lines 206-209)
handleAudioPause(t) ==
    /\ audioUrl # 0 /\ currentDocId # 0
    /\ history' = updateHistoryItem(currentDocId, "lastPosition", t)
    /\ UNCHANGED <<sessionVars, codecVars, currentDocId, extractedText, audioUrl,
                   isLoading, results, job>>

\* ---- handleAudioUpload (lines 226-239)
handleAudioUpload(h) ==
    /\ Enter(h, "audio", "awaitFile", 0)
    /\ isLoading' = TRUE
    /\ UNCHANGED <<sessionVars, codecVars, history, currentDocId, extractedText,
                   audioUrl, results>>
AudioFileRead(h) ==
    /\ Goes(h, "audio", "awaitFile", "awaitRemote")
    /\ UNCHANGED <<sessionVars, codecVars, history, currentDocId, extractedText,
                   audioUrl, isLoading, results>>
Transcribed(h) ==
    /\ Goes(h, "audio", "awaitRemote", "done")
    /\ results' = results \cup {"transcription"}
    /\ isLoading' = FALSE
    /\ UNCHANGED <<sessionVars, codecVars, history, currentDocId, extractedText, audioUrl>>
AudioFailed(h) ==
    /\ job[h].pc \in Awaiting
    /\ Goes(h, "audio", job[h].pc, "caught")
    /\ isLoading' = FALSE
    /\ UNCHANGED <<sessionVars, codecVars, history, currentDocId, extractedText,
                   audioUrl, results>>

\* ---- handleImageUpload (lines 242-257); fileToBase64 is awaited before the
\* try block (line 247)
handleImageUpload(h) ==
    /\ Enter(h, "image", "awaitFile", 0)
    /\ isLoading' = TRUE
    /\ UNCHANGED <<sessionVars, codecVars, history, currentDocId, extractedText,
                   audioUrl, results>>
ImageFileRead(h) ==
    /\ Goes(h, "image", "awaitFile", "awaitRemote")
    /\ results' = results \cup {"analyzedImgUrl"}
    /\ UNCHANGED <<sessionVars, codecVars, history, currentDocId, extractedText,
                   audioUrl, isLoading>>
\* fileToBase64 rejected: the handler's promise rejects, nothing catches it
ImageFileFailed(h) ==
    /\ Goes(h, "image", "awaitFile", "threw")
    /\ UNCHANGED <<sessionVars, codecVars, history, currentDocId, extractedText,
                   audioUrl, isLoading, results>>
Analyzed(h) ==
    /\ Goes(h, "image", "awaitRemote", "done")
    /\ results' = results \cup {"analysisResult"}
    /\ isLoading' = FALSE
    /\ UNCHANGED <<sessionVars, codecVars, history, currentDocId, extractedText, audioUrl>>
AnalyzeFailed(h) ==
    /\ Goes(h, "image", "awaitRemote", "caught")
    /\ isLoading' = FALSE
    /\ UNCHANGED <<sessionVars, codecVars, history, currentDocId, extractedText,
                   audioUrl, results>>

\* ---- handleGenerateImage (lines 260-270); its button is disabled while
\* loading
handleGenerateImage(h) ==
    /\ ~isLoading
    /\ Enter(h, "generate", "awaitRemote", 0)
    /\ isLoading' = TRUE
    /\ UNCHANGED <<sessionVars, codecVars, history, currentDocId, extractedText,
                   audioUrl, results>>
Generated(h) ==
    /\ Goes(h, "generate", "awaitRemote", "done")
    /\ results' = results \cup {"generatedImgBase64"}
    /\ isLoading' = FALSE
    /\ UNCHANGED <<sessionVars, codecVars, history, currentDocId, extractedText, audioUrl>>
GenerateFailed(h) ==
    /\ Goes(h, "generate", "awaitRemote", "caught")
    /\ isLoading' = FALSE
    /\ UNCHANGED <<sessionVars, codecVars, history, currentDocId, extractedText,
                   audioUrl, results>>

\* App on a first visit, or on a later one with a document in localStorage
AppInit ==
    /\ SessionInit
    /\ CodecIdle
    /\ history \in {<<>>, <<NewItem(SavedId)>>}
    /\ currentDocId = 0
    /\ extractedText = 0
    /\ audioUrl = 0
    /\ isLoading = FALSE
    /\ results = {}
    /\ job = [h \in Jobs |-> [kind |-> "none", pc |-> "unused", text |-> 0]]

\* The reader flow.
ReaderNext ==
    \/ \E h \in Jobs : handleFileUpload(h)
    \/ \E h \in Jobs : DocFileRead(h)
    \/ \E h \in Jobs : DocExtracted(h)
    \/ \E h \in Jobs : DocFailed(h)
    \/ \E k \in 1..(MaxJobs + 1) : handleHistoryClick(k)
    \/ \E k \in 1..(MaxJobs + 1) : deleteHistoryItem(k)
    \/ \E h \in Jobs : handleReadAloud(h)
    \/ \E h \in Jobs : SpeechReady(h)
    \/ \E h \in Jobs : SpeechFailed(h)
    \/ \E t \in 0..MaxPos : handleAddBookmark(t)
    \/ \E t \in 0..MaxPos : handleAudioPause(t)

ReaderSpec == AppInit /\ [][ReaderNext]_vars

\* The handlers that set procState to loading.
OneShotNext ==
    \/ \E h \in Jobs : handleFileUpload(h)
    \/ \E h \in Jobs : DocFileRead(h)
    \/ \E h \in Jobs : DocExtracted(h)
    \/ \E h \in Jobs : DocFailed(h)
    \/ \E k \in 1..(MaxJobs + 1) : handleHistoryClick(k)
    \/ \E h \in Jobs : handleReadAloud(h)
    \/ \E h \in Jobs : SpeechReady(h)
    \/ \E h \in Jobs : SpeechFailed(h)
    \/ \E h \in Jobs : handleAudioUpload(h)
    \/ \E h \in Jobs : AudioFileRead(h)
    \/ \E h \in Jobs : Transcribed(h)
    \/ \E h \in Jobs : AudioFailed(h)
    \/ \E h \in Jobs : handleImageUpload(h)
    \/ \E h \in Jobs : ImageFileRead(h)
    \/ \E h \in Jobs : ImageFileFailed(h)
    \/ \E h \in Jobs : Analyzed(h)
    \/ \E h \in Jobs : AnalyzeFailed(h)
    \/ \E h \in Jobs : handleGenerateImage(h)
    \/ \E h \in Jobs : Generated(h)
    \/ \E h \in Jobs : GenerateFailed(h)

OneShotSpec == AppInit /\ [][OneShotNext]_vars

\* ---- scheduling of the environment the code relies on: a pending getUserMedia
\* is answered, a connection attempt opens or fails, a close completes, the
\* clocks run and a finished node fires "ended".  Nothing obliges the user to
\* click, nor the server to send or to close.
CloseCompletes(i) == conn[i] \in {"closing", "errored"} /\ OnClose(i)
FairSpec ==
    /\ Spec
    /\ WF_vars(\E i \in Calls : MicGranted(i) \/ MicDenied(i))
    /\ WF_vars(\E i \in Calls : ConnOpen(i) \/ (conn[i] = "connecting" /\ OnError(i)))
    /\ WF_vars(\E i \in Calls : CloseCompletes(i))
    /\ WF_vars(\E i \in Calls : Tick(i))
    /\ WF_vars(\E k \in 1..MaxChunks : SourceEnded(k))

StopStep == StopClick \/ Unmount
LiveConn == {"connecting", "open", "closing"}

\* a step in which onmessage created and started a node (lines 104-116)
Scheduled == made' = made + 1
\* a step of the onmessage handler for a message whose interrupted flag is set
\* and whose payload, if any, decodes
InterruptRan ==
    /\ lastOp' = "interrupt"
    /\ \E i \in Calls, a \in Audio \ {Malformed} :
          OnMessage(i, [audio |-> a, interrupted |-> TRUE])

\* C1: gap-free scheduling.  When a well-formed chunk is handled after another
\* chunk with no interruption in between, and the playback clock is still at or
\* before the running NextStartTime, the chunk starts exactly where the
\* previous one ends: start(n+1) = start(n) + d(n).
C1_GapFree ==
    [][(/\ Scheduled
        /\ lastChunk # NoChunk /\ ~intrSince
        /\ clock[lastChunk'.ctx] <= nextStartTime)
       => lastChunk'.start = lastChunk.start + lastChunk.dur]_vars

\* two chunks of 2 ticks and 1 tick arrived back to back on one context, the
\* clock not having moved since the first was scheduled
C1_Witness ==
    \E a \in playing, b \in playing :
        /\ a.dur = 2 /\ b.dur = 1 /\ a.ctx = b.ctx /\ b.id = a.id + 1
        /\ clock[a.ctx] = a.start
        /\ b.start = a.start + 2
        /\ lastChunk = [ctx |-> b.ctx, start |-> b.start, dur |-> 1] /\ ~intrSince

\* C2: catch-up.  A chunk handled while NextStartTime is below the clock starts
\* exactly at the clock's current time, and no chunk is ever given a start time
\* earlier than the clock time at which it is scheduled.
C2_CatchUp ==
    [][Scheduled
       => /\ nextStartTime < clock[lastChunk'.ctx]
               => lastChunk'.start = clock[lastChunk'.ctx]
          /\ lastChunk'.start >= clock[lastChunk'.ctx]]_vars

\* the first chunk ever arrives when the clock has already advanced past the
\* initial NextStartTime of 0, and is scheduled at the clock's time
C2_Witness ==
    /\ made = 1 /\ stops = 0
    /\ lastChunk.start > 0
    /\ \E n \in playing : n.start = lastChunk.start /\ clock[n.ctx] = n.start

\* C3: interruption preempts everything.  After the handler of a message whose
\* interrupted flag is set, whatever else the message carries, every source of
\* the active set has been stopped, the set is empty and NextStartTime is 0.
C3_InterruptPreempts ==
    lastOp = "interrupt" => (sources = {} /\ playing = {} /\ nextStartTime = 0)

\* C4 as stated: an interruption handled while the active set is empty leaves
\* the active set and NextStartTime as they were.
C4_InterruptEmptyNoOp ==
    [][(sources = {} /\ ~Scheduled /\ InterruptRan)
       => UNCHANGED <<sources, nextStartTime>>]_vars

\* C4 amended: an interruption handled while the active set is empty leaves the
\* set empty and stops no node, and sets NextStartTime to 0.
C4_InterruptEmptyResets ==
    [][(sources = {} /\ ~Scheduled /\ InterruptRan)
       => /\ sources' = {} /\ playing' = playing /\ stops' = stops
          /\ nextStartTime' = 0]_vars

\* a chunk was scheduled and ended by itself, and an interruption then ran on
\* the empty set: no node was ever force-stopped, yet NextStartTime is back at 0
C4_Witness ==
    /\ lastOp = "interrupt" /\ made >= 1 /\ stops = 0
    /\ sources = {} /\ playing = {} /\ nextStartTime = 0

\* C5 as stated: no operation assigns NextStartTime a value below the playback
\* clock's current time, be it chunk scheduling, interruption or teardown.
C5_NeverBelowClock ==
    [][nextStartTime' # nextStartTime
       => \A i \in Calls :
             (\E m \in Msgs : OnMessage(i, m)) => nextStartTime' >= clock[i]]_vars

\* C5 amended: scheduling a chunk never leaves NextStartTime below the clock's
\* current time; the interruption branch sets it to 0 whatever the clock
\* shows; teardown does not assign it.
C5_ScheduleNotBelowClock ==
    [][/\ (Scheduled /\ lastOp' # "interrupt")
            => nextStartTime' >= clock[lastChunk'.ctx] + lastChunk'.dur
       /\ InterruptRan => nextStartTime' = 0
       /\ lastOp' = "stop" => nextStartTime' = nextStartTime]_vars

\* a chunk was stopped by an interruption, the clock went on, and the next
\* chunk was scheduled at the clock's time
C5_Witness ==
    /\ made = 2 /\ stops = 1 /\ ~intrSince
    /\ \E n \in playing :
          /\ n.start = lastChunk.start /\ clock[n.ctx] = n.start /\ n.start > 0
          /\ nextStartTime = n.start + n.dur

\* C6: the active set holds exactly the nodes that are queued or playing, and
\* never a node that can no longer play, such as one of a closed context.
C6_ActiveSetExact ==
    sources = {n \in playing : outCtx[n.ctx] = "running"}

\* C7: if stop() ran while start() was suspended on getUserMedia, then once
\* start() resumes no session handle is stored, no connection is requested or
\* open (so onopen never sets the connected flag) and no frame is sent.
C7_NoResurrection ==
    \A i \in Calls :
        stoppedAwaiting[i] =>
            (sessionPromiseRef # i /\ conn[i] = "none" /\ sent[i] = <<>>)

\* C8: once stop() has been called, every connection a start() has opened or
\* requested, or is about to request, is eventually closed.
C8_StopClosesAll ==
    \A i \in Calls :
        (lastOp = "stop" /\ pc[i] \in {"awaitMic", "done"})
            ~> (pc[i] # "awaitMic" /\ conn[i] \notin LiveConn)

\* C9: a stop() that directly follows a stop() leaves the observable state as
\* it was and calls close on no audio context that is already closed.
C9_StopTwice ==
    [][(lastOp = "stop" /\ StopStep)
         => /\ Observable' = Observable
            /\ ~(audioContextRef # 0 /\ outCtx[audioContextRef] = "closed")
            /\ ~(inputContextRef # 0 /\ inCtx[inputContextRef] = "closed")]_vars

\* C10: right after any call of stop(), NextStartTime is 0 and the active set
\* is empty.
C10_StopResetsScheduler ==
    lastOp = "stop" => (nextStartTime = 0 /\ sources = {})

\* C11: right after stop(), no microphone stream acquired by a start() is still
\* held, and no capture callback registered by a start() can still run.
C11_StopReleasesMic ==
    lastOp = "stop" =>
        \A i \in Calls : ~mic[i] /\ ~(pc[i] = "done" /\ inCtx[i] = "running")

\* C12: at any time the component holds at most one open or opening
\* connection, one running input context, one running output context and one
\* microphone stream.
C12_AtMostOneSession ==
    /\ Cardinality({i \in Calls : conn[i] \in {"connecting", "open"}}) <= 1
    /\ Cardinality({i \in Calls : inCtx[i] = "running"}) <= 1
    /\ Cardinality({i \in Calls : outCtx[i] = "running"}) <= 1
    /\ Cardinality({i \in Calls : mic[i]}) <= 1

\* frame f was handed to a session: passed to sendRealtimeInput, or queued on a
\* connect promise for it (lines 72-76)
Handed(f) ==
    \E j \in Calls :
        \/ \E k \in DOMAIN sent[j] : sent[j][k] = f
        \/ \E k \in DOMAIN thenQ[j] : thenQ[j][k].op = "send" /\ thenQ[j][k].frame = f

\* C13: a frame whose capture callback fired while the mute flag was true is
\* not handed to any session, and a frame whose callback fired while the flag
\* was false and a session handle existed is handed to it.
C13_MuteGateFollowsFlag ==
    \A f \in DOMAIN log :
        /\ log[f].muted => ~Handed(f)
        /\ (~log[f].muted /\ log[f].to # 0) => Handed(f)

\* frame f was passed to sendRealtimeInput of session j
Delivered(f, j) == \E k \in DOMAIN sent[j] : sent[j][k] = f

\* C14: a frame whose capture callback fired while its session's connection
\* was still being established is never passed to the session's send.
C14_DroppedWhileConnecting ==
    \A f \in DOMAIN log :
        log[f].at = "connecting" => ~Delivered(f, log[f].to)

\* C14, amended: such a frame, unless the gate dropped it, waits on the connect
\* promise as long as the promise is unresolved, and has been passed to the
\* session's send once the connection has completed.
C14_QueuedUntilOpen ==
    \A f \in DOMAIN log :
        (log[f].at = "connecting" /\ ~log[f].gate) =>
            LET j == log[f].to IN
            IF resolved[j]
              THEN Delivered(f, j)
              ELSE /\ ~Delivered(f, j)
                   /\ \E k \in DOMAIN thenQ[j] :
                         thenQ[j][k] = [op |-> "send", frame |-> f]

\* a frame captured while connecting was delivered after the connection opened
C14_Witness ==
    \E f \in DOMAIN log :
        /\ log[f].at = "connecting" /\ ~log[f].gate
        /\ resolved[log[f].to] /\ Delivered(f, log[f].to)

\* C15: a frame whose capture callback fired after the close event of a
\* session was delivered is not passed to that session's send.
C15_NoSendAfterClose ==
    \A f \in DOMAIN log :
        log[f].at = "closed" => ~Delivered(f, log[f].to)

\* C16: a start() whose microphone request was refused has issued no connect
\* request and stored no session handle.
C16_DeniedNeverConnects ==
    \A i \in Calls :
        pc[i] = "failed" =>
            /\ conn[i] = "none" /\ ~mic[i]
            /\ sessionPromiseRef # i
            /\ ~resolved[i] /\ thenQ[i] = <<>> /\ sent[i] = <<>>

\* a start() was refused the microphone
C16_Witness ==
    \E i \in Calls : pc[i] = "failed" /\ outCtx[i] = "running" /\ conn[i] = "none"

\* C17: after a refused microphone or a connection error of a start(), both
\* audio contexts that start() opened and its connection are eventually
\* closed.
C17_ErrorsReleaseAll ==
    \A i \in Calls :
        (pc[i] = "failed" \/ conn[i] = "errored")
            ~> (outCtx[i] # "running" /\ inCtx[i] # "running" /\ conn[i] \notin LiveConn)

\* C18: once the error handler of a connection has run, the connected flag is
\* false.
C18_ErrorClearsConnected ==
    (\E i \in Calls : conn[i] = "errored") => ~isConnected

\* C19: a message whose audio payload is malformed is handled as the same
\* message without the payload: the chunk changes nothing of the scheduler and
\* the session, and an interruption flag of the message still takes effect.
C19_MalformedChunkDiscarded ==
    [][\A i \in Calls, b \in BOOLEAN :
          OnMessage(i, [audio |-> Malformed, interrupted |-> b])
              => /\ UNCHANGED <<made, lastChunk, refVars, reactVars, ctxVars, connVars>>
                 /\ IF b THEN sources' = {} /\ nextStartTime' = InterruptReset
                              /\ playing' = playing \ sources
                         ELSE UNCHANGED <<sources, nextStartTime, playing>>]_vars

\* C20: every sample of [-1, 1] that is a multiple of 1/32768, both endpoints
\* included, comes back from encoding and decoding within 1/32768 of itself,
\* and a frame comes back with its length; so a frame of zeros comes back as
\* zeros.
C20_RoundTrip ==
    codecPc = "decoded" =>
        /\ Len(channelData) = Len(data)
        /\ \A k \in DOMAIN data :
              data[k] % Step = 0 => Abs(channelData[k] - data[k]) <= Step

\* C21: the frames passed to a session's send are in capture order, each at
\* most once, whether their callbacks fired before or after the connection
\* completed; frames still waiting on the promise are in capture order too and
\* were all captured before any frame they wait behind was passed on.
C21_CaptureOrder ==
    \A j \in Calls :
        LET q == thenQ[j] IN
        /\ \A a, b \in DOMAIN sent[j] : a < b => sent[j][a] < sent[j][b]
        /\ \A a, b \in DOMAIN q :
              (a < b /\ q[a].op = "send" /\ q[b].op = "send") => q[a].frame < q[b].frame
        /\ \A a \in DOMAIN sent[j], b \in DOMAIN q :
              q[b].op = "send" => sent[j][a] < q[b].frame

\* two frames were passed to one session, the first of them captured while the
\* connection was being established and the second after it had opened
C21_Witness ==
    \E j \in Calls :
        /\ Len(sent[j]) >= 2
        /\ log[sent[j][1]].at = "connecting"
        /\ log[sent[j][2]].at = "open"

\* C22: every step that changes the active set or NextStartTime is a step of
\* onmessage (scheduling of a chunk, interruption) or the natural end of a
\* source; start(), stop(), the mute button, the open, close and error
\* handlers and the capture callback change neither.
C22_SchedulerOwnsState ==
    [][(sources' # sources \/ nextStartTime' # nextStartTime)
          => \/ Scheduled
             \/ lastOp' = "interrupt"
                  /\ \E i \in Calls, a \in Audio :
                        OnMessage(i, [audio |-> a, interrupted |-> TRUE])
             \/ \E k \in 1..MaxChunks : SourceEnded(k)]_vars

\* stop() ran while a source was in the active set and NextStartTime was ahead,
\* and left both as they were
C22_Witness ==
    lastOp = "stop" /\ sources # {} /\ nextStartTime > 0 /\ isConnected = FALSE

\* C23: once stop() has run for a start() (it closed the contexts that start()
\* opened), a later open event of that start()'s connection does not turn the
\* connected flag on, and a later audio message of it creates no source, adds
\* none to the active set and leaves NextStartTime alone.
C23_EventsAfterStopIgnored ==
    [][\A i \in Calls :
          outCtx[i] = "closed" =>
              /\ ~(Scheduled /\ lastChunk'.ctx = i)
              /\ ~(conn[i] = "connecting" /\ resolved'[i] /\ ~isConnected /\ isConnected')
      ]_vars

\* C24: when the chunk scheduled last belonged to an earlier start() that was
\* stopped since, and no interruption ran since, the first chunk scheduled in
\* the context of a later start() starts at that context's current time.
C24_NoStaleSchedule ==
    [][\A i \in Calls :
          (/\ Scheduled /\ lastChunk'.ctx = i
           /\ lastChunk.ctx # 0 /\ lastChunk.ctx < i
           /\ outCtx[lastChunk.ctx] = "closed"
           /\ ~intrSince
           /\ \A n \in playing : n.ctx # i)
              => lastChunk'.start = clock[i]]_vars

\* C25: after every step of the reader flow the current document id is null or
\* the id of an item of the history list; and a step that removes the open
\* document's item from the list leaves the current document id, the
\* extracted text and the audio URL cleared.
C25_CurrentDocInHistory ==
    [][/\ (currentDocId' = 0 \/ currentDocId' \in HistoryIds')
       /\ (currentDocId # 0 /\ currentDocId \in HistoryIds
             /\ currentDocId \notin HistoryIds')
            => (currentDocId' = 0 /\ extractedText' = 0 /\ audioUrl' = 0)]_vars

\* a document was uploaded and opened, and is gone from the list and no longer
\* the current one although nothing else was uploaded: it was deleted while open
C25_Witness ==
    /\ job[1] = [kind |-> "doc", pc |-> "done", text |-> 0]
    /\ \A h \in Jobs : h # 1 => job[h].pc = "unused"
    /\ 1 \notin HistoryIds
    /\ currentDocId = 0 /\ extractedText = 0 /\ audioUrl = 0

\* C26: whenever no one-shot handler is waiting for a file conversion or a
\* remote call any more, the processing state is not loading.
C26_LoadingCleared ==
    (\A h \in Jobs : job[h].pc \notin Awaiting) => ~isLoading

====
